---- MODULE Spec2Model ----
(***************************************************************************)
(* Model of src/parser.py: a plex scanner (lexicon of create_scanner) and  *)
(* the hand-written recursive descent parser MyParser driven by one token  *)
(* of lookahead.  The input text is a sequence of one-character strings;   *)
(* the scanner works on characters (longest match, lexicon order on ties); *)
(* the parser's call stack is explicit.                                    *)
(***************************************************************************)
EXTENDS Integers, Sequences, FiniteSets, TLC

VARIABLES input, tokens, pc, stack, la, val, cur_pos, cur_line, cur_line_start,
          start_line, start_col, exc, msg, outcome, errpos, nmatched, nread

vars == <<input, tokens, pc, stack, la, val, cur_pos, cur_line, cur_line_start,
          start_line, start_col, exc, msg, outcome, errpos, nmatched, nread>>

(***************************************************************************)
(* Bounds of the model.                                                    *)
(***************************************************************************)
\* the longest input enumerated, counted in chunks (see Chunks)
MaxChunks == 3

(***************************************************************************)
(* Characters.                                                             *)
(***************************************************************************)
UpperSeq == <<"A","B","C","D","E","F","G","H","I","J","K","L","M",
              "N","O","P","Q","R","S","T","U","V","W","X","Y","Z">>
LowerSeq == <<"a","b","c","d","e","f","g","h","i","j","k","l","m",
              "n","o","p","q","r","s","t","u","v","w","x","y","z">>
DigitSeq == <<"0","1","2","3","4","5","6","7","8","9">>

Range(seq) == {seq[i] : i \in 1..Len(seq)}

Max(S) == CHOOSE x \in S : \A y \in S : y <= x
Min(S) == CHOOSE x \in S : \A y \in S : x <= y

\* the value plex's read() returns as token at end of file, and the
\* marker used here for a scan that matches no pattern
None == "None"
NoMatch == "NoMatch"
IGNORE == "IGNORE"

\* letter = plex.Range("AZaz")
letter == Range(UpperSeq) \cup Range(LowerSeq)
\* digit = plex.Range("09")
digit == Range(DigitSeq)
\* the characters of space = plex.Any(" \t\n")
spaceChars == {" ", "\t", "\n"}

\* the characters of string = plex.Rep1(letter | digit)
alnum == letter \cup digit

\* plex.NoCase: a letter of the pattern matches in either case
FoldMap ==
    [c \in Range(UpperSeq) |-> LowerSeq[CHOOSE i \in 1..Len(UpperSeq) : UpperSeq[i] = c]]
Fold(c) == IF c \in DOMAIN FoldMap THEN FoldMap[c] ELSE c
FoldSeq(t) == [i \in 1..Len(t) |-> Fold(t[i])]

\* the n characters of s after offset p (p characters already consumed)
\* the element of a one-element set: in The({e(x) : x \in {v}}) the value v
\* is computed once, whatever the number of places e uses it in
The(S) == CHOOSE x \in S : TRUE
Prefix(s, p, n) == SubSeq(s, p + 1, p + n)

(***************************************************************************)
(* Pattern constructs: each gives the length of the longest match of the   *)
(* pattern at offset p of s, 0 when it does not match.                     *)
(***************************************************************************)
\* plex.Str(w1, w2, ...): one of the words, exactly
StrLen(words, s, p) ==
    LET fits == {Len(w) : w \in {w \in words :
                     p + Len(w) <= Len(s) /\ Prefix(s, p, Len(w)) = w}}
    IN  IF fits = {} THEN 0 ELSE Max(fits)

\* plex.NoCase(plex.Str(...)) over lower-case words
NoCaseStrLen(words, s, p) ==
    LET fits == {Len(w) : w \in {w \in words :
                     p + Len(w) <= Len(s) /\ FoldSeq(Prefix(s, p, Len(w))) = w}}
    IN  IF fits = {} THEN 0 ELSE Max(fits)

\* plex.Any(chars): one character of the set
AnyLen(chars, s, p) == IF p < Len(s) /\ s[p + 1] \in chars THEN 1 ELSE 0

\* plex.Rep1(class): the longest non-empty run of characters of the set
RECURSIVE Rep1Len(_, _, _)
Rep1Len(chars, s, p) ==
    IF p < Len(s) /\ s[p + 1] \in chars THEN 1 + Rep1Len(chars, s, p + 1) ELSE 0

(***************************************************************************)
(* The patterns of create_scanner.                                         *)
(***************************************************************************)
logOpWords == {<<"a","n","d">>, <<"o","r">>, <<"n","o","t">>}
booleanValWords == {<<"t","r","u","e">>, <<"f","a","l","s","e">>,
                    <<"t">>, <<"f">>, <<"0">>, <<"1">>}
printWord == <<"p","r","i","n","t">>

\* string = plex.Rep1(letter | digit)
pat_string(s, p) == Rep1Len(alnum, s, p)
\* logOp = plex.Str("and", "or", "not")
pat_logOp(s, p) == StrLen(logOpWords, s, p)
\* assignOp = plex.Str("=")
pat_assignOp(s, p) == StrLen({<<"=">>}, s, p)
\* the boolean values without plex.NoCase
pat_booleanVal_caseSensitive(s, p) == StrLen(booleanValWords, s, p)
\* booleanVal = plex.NoCase(plex.Str("true","false","t","f","0","1"))
pat_booleanVal(s, p) == NoCaseStrLen(booleanValWords, s, p)
\* printCommand = plex.Str("print")
pat_printCommand(s, p) == StrLen({printWord}, s, p)
\* leftpar = plex.Str("("), rightpar = plex.Str(")")
pat_leftpar(s, p) == StrLen({<<"(">>}, s, p)
pat_rightpar(s, p) == StrLen({<<")">>}, s, p)
\* space = plex.Any(" \t\n")
pat_space(s, p) == AnyLen(spaceChars, s, p)

\* the lexicon: the actions in the order of the (pattern, action) list
lexicon == <<"LOG_OP_TOKEN", "BOOLEAN_VAL_TOKEN", IGNORE, "ASSIGN_OP",
             "PRINT_COMMAND", "string", "(", ")">>

\* the match length of the i-th pattern of the lexicon
LexLen(i, s, p) ==
    CASE i = 1 -> pat_logOp(s, p)
      [] i = 2 -> pat_booleanVal(s, p)
      [] i = 3 -> pat_space(s, p)
      [] i = 4 -> pat_assignOp(s, p)
      [] i = 5 -> pat_printCommand(s, p)
      [] i = 6 -> pat_string(s, p)
      [] i = 7 -> pat_leftpar(s, p)
      [] i = 8 -> pat_rightpar(s, p)

\* which pattern wins among those matching the longest text: the one listed
\* first in the lexicon
Winner(cands) == Min(cands)

\* a scan that takes the first pattern of the lexicon that matches at all,
\* whatever the length of its match
scan_first_listed(s, p) ==
    LET lens == [i \in 1..Len(lexicon) |-> LexLen(i, s, p)]
        cands == {i \in 1..Len(lexicon) : lens[i] > 0}
    IN  IF cands # {}
        THEN [len |-> lens[Min(cands)], action |-> lexicon[Min(cands)]]
        ELSE IF p >= Len(s)
             THEN [len |-> 0, action |-> None]
             ELSE [len |-> 0, action |-> NoMatch]

\* One scan of the plex machine at offset p: the longest text any pattern
\* matches; among the patterns matching that text, the winner's action.
\* At the end of the text the action is None; when nothing matches, NoMatch.
scan_a_token(s, p) ==
    The({LET best == Max(Range(lens))
             cands == {i \in 1..Len(lexicon) : lens[i] = best}
         IN  IF best > 0
             THEN [len |-> best, action |-> lexicon[Winner(cands)]]
             ELSE IF p >= Len(s)
                  THEN [len |-> 0, action |-> None]
                  ELSE [len |-> 0, action |-> NoMatch]
         : lens \in {[i \in 1..Len(lexicon) |-> LexLen(i, s, p)]}})

(***************************************************************************)
(* The parser's configuration: the fields of MyParser (la, val), the state *)
(* of its plex scanner (cur_pos, cur_line, cur_line_start, start_line,     *)
(* start_col), the call stack, a raised exception, and what the main part  *)
(* printed (outcome, errpos).  nmatched and nread count the tokens matched *)
(* and the tokens the scanner returned.  input is the text of the file and *)
(* tokens the token stream of that text, fixed when the run starts.        *)
(***************************************************************************)
Config ==
    [pc |-> pc, stack |-> stack, la |-> la, val |-> val, cur_pos |-> cur_pos,
     cur_line |-> cur_line, cur_line_start |-> cur_line_start,
     start_line |-> start_line, start_col |-> start_col, exc |-> exc,
     msg |-> msg, outcome |-> outcome, errpos |-> errpos,
     nmatched |-> nmatched, nread |-> nread]

\* what the main part prints at the end of a run
Success == "Successful parsing of program"
ScannerError == "Scanner Error"
ParserError == "Parser Error"
Running == "running"

\* the configuration before parser.parse(fp) is called: la and val are not
\* set yet, the scanner stands at line 1, column 0
Unset == "unset"
InitConfig ==
    [pc |-> "start", stack |-> <<>>, la |-> Unset, val |-> <<>>, cur_pos |-> 0,
     cur_line |-> 1, cur_line_start |-> 0, start_line |-> 1, start_col |-> 0,
     exc |-> None, msg |-> <<>>, outcome |-> Running, errpos |-> <<>>,
     nmatched |-> 0, nread |-> 0]

Top(st) == st[Len(st)]
Front(st) == SubSeq(st, 1, Len(st) - 1)

\* raise kind(m): control leaves the procedures for the handlers of the main part
Raise(c, kind, m) == [c EXCEPT !.pc = "raise", !.exc = kind, !.msg = m]

\* a call of procedure f, which does not happen when what came before raised
Call(c, f) ==
    IF c.pc = "raise" THEN c ELSE [c EXCEPT !.pc = "run", !.stack = Append(@, f)]

\* a read that passes over a character no pattern matches
RECURSIVE read_skipUnrecognized(_, _)
read_skipUnrecognized(s, c) ==
    The({
    LET n == IF t.action = NoMatch THEN 1 ELSE t.len
        text == Prefix(s, c.cur_pos, n)
        nl == text = <<"\n">>
        c1 == [c EXCEPT !.start_line = c.cur_line,
                        !.start_col = c.cur_pos - c.cur_line_start,
                        !.cur_pos = c.cur_pos + n,
                        !.cur_line = IF nl THEN @ + 1 ELSE @,
                        !.cur_line_start = IF nl THEN c.cur_pos + n ELSE @]
    IN  IF t.action = NoMatch \/ t.action = IGNORE
        THEN The({read_skipUnrecognized(s, m) : m \in {c1}})
        ELSE [c1 EXCEPT !.la = t.action, !.val = text, !.nread = @ + 1]
    : t \in {scan_a_token(s, c.cur_pos)}})

(***************************************************************************)
(* scanner.read(): scans tokens until one has an action other than IGNORE. *)
(* Every scan starts by recording its start position; a newline advances   *)
(* the line.  Unrecognized input raises plex's error (a PlexError) and     *)
(* leaves la and val as they were.                                         *)
(***************************************************************************)
RECURSIVE read(_, _)
read(s, c) ==
    The({
    LET text == Prefix(s, c.cur_pos, t.len)
        nl == text = <<"\n">>
        c1 == [c EXCEPT !.start_line = c.cur_line,
                        !.start_col = c.cur_pos - c.cur_line_start,
                        !.cur_pos = c.cur_pos + t.len,
                        !.cur_line = IF nl THEN @ + 1 ELSE @,
                        !.cur_line_start = IF nl THEN c.cur_pos + t.len ELSE @]
    IN  IF t.action = NoMatch
        THEN Raise(c1, "PlexError", <<"UnrecognizedInput">>)
        ELSE IF t.action = IGNORE
             THEN The({read(s, n) : n \in {c1}})
             ELSE [c1 EXCEPT !.la = t.action, !.val = text, !.nread = @ + 1]
    : t \in {scan_a_token(s, c.cur_pos)}})

\* position giving where the scanner stands, the end of the last token
position_cur(c) == <<c.cur_line, c.cur_pos - c.cur_line_start>>

\* next_token: returns (next_token, matched-text)
next_token(s, c) == read(s, c)

\* position: the scanner position (line, column of the start of the last scan)
position(c) == <<c.start_line, c.start_col>>

\* create_scanner: builds the scanner and gets the initial lookahead
create_scanner(s, c) == next_token(s, c)

\* match acquiring the new lookahead twice over, so skipping a token
match_twice(s, c, token) ==
    IF c.la = token
    THEN LET n == next_token(s, [c EXCEPT !.nmatched = @ + 1])
         IN  IF n.pc = "raise" \/ n.la = None THEN n ELSE next_token(s, n)
    ELSE Raise(c, "ParseError", <<"found {} instead of {}", c.la, token>>)

\* match: consumes the expected token and acquires a new lookahead, or raises
match(s, c, token) ==
    IF c.la = token
    THEN next_token(s, [c EXCEPT !.nmatched = @ + 1])
    ELSE Raise(c, "ParseError", <<"found {} instead of {}", c.la, token>>)

\* parse: creates the scanner and calls the parsing logic
parse(s, c) == Call(create_scanner(s, [c EXCEPT !.stack = Append(@, "parse")]), "stmt")

(***************************************************************************)
(* The procedures of the parser, each up to the call it ends with.         *)
(***************************************************************************)
\* stmt without its end-of-program branch
stmt_noEnd(s, c) ==
    IF c.la = "string" \/ c.la = "PRINT_COMMAND"
    THEN Call(match(s, c, "string"), "expr")
    ELSE Raise(c, "ParseError", <<"in stmt: string or print command expected">>)

\* stmt taking any other lookahead as the start of an expression
stmt_anyLookahead(s, c) ==
    IF c.la = "string" \/ c.la = "PRINT_COMMAND"
    THEN Call(match(s, c, "string"), "expr")
    ELSE IF c.la = None
         THEN [c EXCEPT !.pc = "return"]
         ELSE Call(c, "expr")

\* stmt consuming whichever of the two admitted lookaheads it sees
stmt_printConsumed(s, c) ==
    IF c.la = "string" \/ c.la = "PRINT_COMMAND"
    THEN Call(match(s, c, c.la), "expr")
    ELSE IF c.la = None
         THEN [c EXCEPT !.pc = "return"]
         ELSE Raise(c, "ParseError", <<"in stmt: string or print command expected">>)

stmt(s, c) ==
    IF c.la = "string" \/ c.la = "PRINT_COMMAND"
    THEN Call(match(s, c, "string"), "expr")
    ELSE IF c.la = None
         THEN [c EXCEPT !.pc = "return"]
         ELSE Raise(c, "ParseError", <<"in stmt: string or print command expected">>)

\* expr returning at the end of the program instead of raising
expr_returnsAtEnd(s, c) ==
    IF c.la = "BOOLEAN_VAL_TOKEN" THEN Call(c, "booleanVal")
    ELSE IF c.la = "LOG_OP_TOKEN" THEN Call(c, "logOp")
    ELSE IF c.la = "ASSIGN_OP" THEN Call(c, "assignOp")
    ELSE IF c.la = "PRINT_COMMAND" THEN Call(c, "printCheck")
    ELSE IF c.la = "string" THEN Call(match(s, c, "string"), "stmt")
    ELSE IF c.val = <<"(">> THEN Call(match(s, c, "("), "expr")
    ELSE IF c.val = <<")">> THEN Call(match(s, c, ")"), "expr")
    ELSE IF c.la = None THEN [c EXCEPT !.pc = "return"]
    ELSE Raise(c, "ParseError", <<"in expr: Valid expression expected">>)

expr(s, c) ==
    IF c.la = "BOOLEAN_VAL_TOKEN" THEN Call(c, "booleanVal")
    ELSE IF c.la = "LOG_OP_TOKEN" THEN Call(c, "logOp")
    ELSE IF c.la = "ASSIGN_OP" THEN Call(c, "assignOp")
    ELSE IF c.la = "PRINT_COMMAND" THEN Call(c, "printCheck")
    ELSE IF c.la = "string" THEN Call(match(s, c, "string"), "stmt")
    ELSE IF c.val = <<"(">> THEN Call(match(s, c, "("), "expr")
    ELSE IF c.val = <<")">> THEN Call(match(s, c, ")"), "expr")
    ELSE Raise(c, "ParseError", <<"in expr: Valid expression expected">>)

booleanVal(s, c) ==
    IF c.la = "BOOLEAN_VAL_TOKEN"
    THEN Call(match(s, c, "BOOLEAN_VAL_TOKEN"), "expr")
    ELSE Raise(c, "ParseError", <<"in booleanVal: Boolean value expected">>)

\* logOp calling expr without consuming the operator
logOp_noMatch(s, c) ==
    IF c.la = "LOG_OP_TOKEN"
    THEN Call(c, "expr")
    ELSE Raise(c, "ParseError",
               <<"in logOp: Logical Operator (and, or, not) expected">>)

logOp(s, c) ==
    IF c.la = "LOG_OP_TOKEN"
    THEN Call(match(s, c, "LOG_OP_TOKEN"), "expr")
    ELSE Raise(c, "ParseError",
               <<"in logOp: Logical Operator (and, or, not) expected">>)

\* assignOp admitting any logical operator after the "="
assignOp_anyLogOp(s, c) ==
    IF c.la = "ASSIGN_OP"
    THEN LET m == match(s, c, "ASSIGN_OP")
         IN  IF m.pc = "raise" THEN m
             ELSE IF m.la = "(" \/ m.la = "BOOLEAN_VAL_TOKEN" \/ m.la = "LOG_OP_TOKEN"
                  THEN Call(m, "expr")
                  ELSE Raise(m, "ParseError",
                             <<"in assignOp: Assignment operator expected">>)
    ELSE Raise(c, "ParseError", <<"in assignOp: Assignment operator expected">>)

assignOp(s, c) ==
    IF c.la = "ASSIGN_OP"
    THEN LET m == match(s, c, "ASSIGN_OP")
         IN  IF m.pc = "raise" THEN m
             ELSE IF m.la = "(" \/ m.la = "BOOLEAN_VAL_TOKEN" \/ m.val = <<"n","o","t">>
                  THEN Call(m, "expr")
                  ELSE Raise(m, "ParseError",
                             <<"in assignOp: Assignment operator expected">>)
    ELSE Raise(c, "ParseError", <<"in assignOp: Assignment operator expected">>)

printCheck(s, c) ==
    IF c.la = "PRINT_COMMAND"
    THEN Call(match(s, c, "PRINT_COMMAND"), "stringCheck")
    ELSE Raise(c, "ParseError", <<"in printCheck: Print Command expected">>)

stringCheck(s, c) ==
    IF c.la = "string"
    THEN Call(match(s, c, "string"), "stmt")
    ELSE Raise(c, "ParseError", <<"in stringCheck: Print Command expected">>)

\* a procedure whose callee returned (or stmt at the end of the program)
\* returns to its caller
return(c) == [c EXCEPT !.stack = Front(@)]

(***************************************************************************)
(* The main part: parser.parse(fp) returned, or one of the two handlers.   *)
(***************************************************************************)
main_success(c) == [c EXCEPT !.pc = "done", !.outcome = Success]

\* the handler printing charno instead of charno+1
main_except_PlexError_zeroBased(c) ==
    [c EXCEPT !.pc = "done", !.stack = <<>>, !.outcome = ScannerError,
              !.errpos = <<position(c)[1], position(c)[2]>>]

main_except_PlexError(c) ==
    [c EXCEPT !.pc = "done", !.stack = <<>>, !.outcome = ScannerError,
              !.errpos = <<position(c)[1], position(c)[2] + 1>>]

\* the ParseError handler going on to print the success message
main_except_ParseError_success(c) ==
    [c EXCEPT !.pc = "done", !.stack = <<>>, !.outcome = Success,
              !.errpos = <<position(c)[1], position(c)[2] + 1>>]

main_except_ParseError(c) ==
    [c EXCEPT !.pc = "done", !.stack = <<>>, !.outcome = ParserError,
              !.errpos = <<position(c)[1], position(c)[2] + 1>>]

(***************************************************************************)
(* The inputs: a prefix followed by at most MaxChunks chunks, and the       *)
(* programs named below.  A chunk is a word or a single character; chunks  *)
(* are concatenated as they are, so adjacent words form one longer run.    *)
(***************************************************************************)
sp == <<" ">>
w_x == <<"x">>
w_and == <<"a","n","d">>
w_or == <<"o","r">>
w_not == <<"n","o","t">>
w_print == <<"p","r","i","n","t">>
w_true == <<"t","r","u","e">>
w_false == <<"f","a","l","s","e">>

Chunks == {w_x, <<"=">>, <<"(">>, <<")">>, sp, <<"\n">>, <<"%">>,
           w_and, w_not, w_print, w_true, <<"T">>, <<"1">>}

RECURSIVE Flatten(_)
Flatten(cs) == IF cs = <<>> THEN <<>> ELSE Head(cs) \o Flatten(Tail(cs))

\* x = true
in_assign == Flatten(<<w_x, sp, <<"=">>, sp, w_true>>)
\* print ( true and ( false or not ) )
in_print == Flatten(<<w_print, sp, <<"(">>, sp, w_true, sp, w_and, sp, <<"(">>, sp,
                      w_false, sp, w_or, sp, w_not, sp, <<")">>, sp, <<")">>>>)
\* ( true and false
in_unmatched == Flatten(<<<<"(">>, sp, w_true, sp, w_and, sp, w_false>>)
\* x = ( true and false ) x
in_accepted == Flatten(<<w_x, sp, <<"=">>, sp, <<"(">>, sp, w_true, sp, w_and, sp,
                         w_false, sp, <<")">>, sp, w_x>>)
\* x print x, on two lines
in_printCheck == Flatten(<<w_x, <<"\n">>, w_print, sp, w_x>>)

NamedInputs == {in_assign, in_print, in_unmatched, in_accepted, in_printCheck}

\* how an enumerated text begins: with nothing, or with an identifier that
\* takes the parser from stmt into expr
Prefixes == {<<>>, w_x \o sp}

(***************************************************************************)
(* The state machine.                                                      *)
(***************************************************************************)
Apply(n) ==
    \E m \in {n} :
        /\ pc' = m.pc
        /\ stack' = m.stack
        /\ la' = m.la
        /\ val' = m.val
        /\ cur_pos' = m.cur_pos
        /\ cur_line' = m.cur_line
        /\ cur_line_start' = m.cur_line_start
        /\ start_line' = m.start_line
        /\ start_col' = m.start_col
        /\ exc' = m.exc
        /\ msg' = m.msg
        /\ outcome' = m.outcome
        /\ errpos' = m.errpos
        /\ nmatched' = m.nmatched
        /\ nread' = m.nread
        /\ UNCHANGED <<input, tokens>>

\* The token stream of text s from offset p on, as the scanner yields it
\* when read to the end: each token with its kind, its text and the offset
\* at which it ends; last comes the end of input (None), or NoMatch where
\* the text has unrecognized input.
RECURSIVE TokenStream(_, _)
TokenStream(s, p) ==
    LET t == scan_a_token(s, p)
    IN  IF t.action = None \/ t.action = NoMatch
        THEN <<[la |-> t.action, val |-> <<>>, end |-> p]>>
        ELSE IF t.action = IGNORE
             THEN TokenStream(s, p + t.len)
             ELSE <<[la |-> t.action, val |-> Prefix(s, p, t.len), end |-> p + t.len]>>
                      \o TokenStream(s, p + t.len)

Init ==
    /\ \/ \E pre \in Prefixes : \E n \in 0..MaxChunks : \E cs \in [1..n -> Chunks] :
             input = pre \o Flatten(cs)
       \/ input \in NamedInputs
    /\ tokens = TokenStream(input, 0)
    /\ pc = InitConfig.pc
    /\ stack = InitConfig.stack
    /\ la = InitConfig.la
    /\ val = InitConfig.val
    /\ cur_pos = InitConfig.cur_pos
    /\ cur_line = InitConfig.cur_line
    /\ cur_line_start = InitConfig.cur_line_start
    /\ start_line = InitConfig.start_line
    /\ start_col = InitConfig.start_col
    /\ exc = InitConfig.exc
    /\ msg = InitConfig.msg
    /\ outcome = InitConfig.outcome
    /\ errpos = InitConfig.errpos
    /\ nmatched = InitConfig.nmatched
    /\ nread = InitConfig.nread

Running_(f) == pc = "run" /\ Top(stack) = f

Parse == pc = "start" /\ Apply(parse(input, Config))
Stmt == Running_("stmt") /\ Apply(stmt(input, Config))
Expr == Running_("expr") /\ Apply(expr(input, Config))
BooleanVal == Running_("booleanVal") /\ Apply(booleanVal(input, Config))
LogOp == Running_("logOp") /\ Apply(logOp(input, Config))
AssignOp == Running_("assignOp") /\ Apply(assignOp(input, Config))
PrintCheck == Running_("printCheck") /\ Apply(printCheck(input, Config))
StringCheck == Running_("stringCheck") /\ Apply(stringCheck(input, Config))
Return == pc = "return" /\ stack # <<>> /\ Apply(return(Config))
MainSuccess == pc = "return" /\ stack = <<>> /\ Apply(main_success(Config))
ExceptPlexError ==
    pc = "raise" /\ exc = "PlexError" /\ Apply(main_except_PlexError(Config))
ExceptParseError ==
    pc = "raise" /\ exc = "ParseError" /\ Apply(main_except_ParseError(Config))

Next ==
    \/ Parse
    \/ Stmt
    \/ Expr
    \/ BooleanVal
    \/ LogOp
    \/ AssignOp
    \/ PrintCheck
    \/ StringCheck
    \/ Return
    \/ MainSuccess
    \/ ExceptPlexError
    \/ ExceptParseError

Spec == Init /\ [][Next]_vars

\* The run is one synchronous thread of control: it keeps taking steps until
\* the main part is done.
FairSpec == Init /\ [][Next]_vars /\ WF_vars(Next)

(***************************************************************************)
(* A whole run as a function of the input: the steps above, applied to a   *)
(* configuration until the main part is done.                              *)
(***************************************************************************)
Step(s, c) ==
    CASE c.pc = "start" -> parse(s, c)
      [] c.pc = "run" /\ Top(c.stack) = "stmt" -> stmt(s, c)
      [] c.pc = "run" /\ Top(c.stack) = "expr" -> expr(s, c)
      [] c.pc = "run" /\ Top(c.stack) = "booleanVal" -> booleanVal(s, c)
      [] c.pc = "run" /\ Top(c.stack) = "logOp" -> logOp(s, c)
      [] c.pc = "run" /\ Top(c.stack) = "assignOp" -> assignOp(s, c)
      [] c.pc = "run" /\ Top(c.stack) = "printCheck" -> printCheck(s, c)
      [] c.pc = "run" /\ Top(c.stack) = "stringCheck" -> stringCheck(s, c)
      [] c.pc = "return" /\ c.stack # <<>> -> return(c)
      [] c.pc = "return" /\ c.stack = <<>> -> main_success(c)
      [] c.pc = "raise" /\ c.exc = "PlexError" -> main_except_PlexError(c)
      [] c.pc = "raise" /\ c.exc = "ParseError" -> main_except_ParseError(c)

RECURSIVE Run(_, _)
Run(s, c) == IF c.pc = "done" THEN c ELSE Run(s, Step(s, c))

\* the outcome of the run on text s
RunOutcome(s) == Run(s, InitConfig).outcome

(***************************************************************************)
(* The documented grammar (module docstring), as a recognizer over the     *)
(* token kinds of a text.                                                  *)
(*   Stmt_list -> Stmt Stmt_list | e.                                      *)
(*   Stmt -> id = Expr | print Expr.                                       *)
(*   Expr -> ( Expr LogOp Expr ) | BooleanVal.                             *)
(* G_Expr and G_Stmt give the index after the phrase that starts at index  *)
(* i of the kinds ts, 0 when no phrase starts there.                       *)
(***************************************************************************)
\* the kinds of the tokens of text s from offset p on, NoMatch last when the
\* text has unrecognized input
RECURSIVE Kinds(_, _)
Kinds(s, p) ==
    LET t == scan_a_token(s, p)
    IN  IF t.action = None THEN <<>>
        ELSE IF t.action = NoMatch THEN <<NoMatch>>
        ELSE IF t.action = IGNORE THEN Kinds(s, p + t.len)
        ELSE <<t.action>> \o Kinds(s, p + t.len)

At(ts, i) == IF i >= 1 /\ i <= Len(ts) THEN ts[i] ELSE None

RECURSIVE G_Expr(_, _)
G_Expr(ts, i) ==
    IF At(ts, i) = "BOOLEAN_VAL_TOKEN" THEN i + 1
    ELSE IF At(ts, i) = "("
    THEN LET j == G_Expr(ts, i + 1)
         IN  IF j = 0 \/ At(ts, j) # "LOG_OP_TOKEN" THEN 0
             ELSE LET k == G_Expr(ts, j + 1)
                  IN  IF k = 0 \/ At(ts, k) # ")" THEN 0 ELSE k + 1
    ELSE 0

G_Stmt(ts, i) ==
    IF At(ts, i) = "string" /\ At(ts, i + 1) = "ASSIGN_OP" THEN G_Expr(ts, i + 2)
    ELSE IF At(ts, i) = "PRINT_COMMAND" THEN G_Expr(ts, i + 1)
    ELSE 0

RECURSIVE G_Stmt_list(_, _)
G_Stmt_list(ts, i) ==
    IF i > Len(ts) THEN TRUE
    ELSE LET j == G_Stmt(ts, i) IN j # 0 /\ G_Stmt_list(ts, j)

\* text s is a sequence of zero or more well-formed statements
Derivable(s) == G_Stmt_list(Kinds(s, 0), 1)

(***************************************************************************)
(* Claims.                                                                 *)
(***************************************************************************)
Done == pc = "done"
WhitespaceOnly(s) == \A i \in 1..Len(s) : s[i] \in {" ", "\t", "\n"}

\* C1: every input that is a sequence of zero or more well-formed statements
\* of the documented grammar is accepted: the run ends with the success
\* message, no ParseError and no scanner error.
C1_WellFormedAccepted == (Done /\ Derivable(input)) => outcome = Success

\* C2: the parser recognizes the documented grammar: every input on which
\* parse() returns normally is derivable from Stmt_list.
C2_AcceptedDerivable == outcome = Success => Derivable(input)

\* C3: the input "x = true" parses successfully: parse() returns normally.
C3_AssignParses == (Done /\ input = in_assign) => outcome = Success

\* C4: the input "print ( true and ( false or not ) )" parses successfully:
\* every token is consumed and parse() returns normally.
C4_PrintParses == (Done /\ input = in_print) => outcome = Success

\* C5: empty input, and input made only of whitespace, is accepted: the
\* first lookahead is the end of input, stmt returns, nothing is raised and
\* no token is consumed.
C5_EmptyAccepted ==
    WhitespaceOnly(input) =>
        /\ nmatched = 0
        /\ exc = None
        /\ pc \in {"start", "run", "return", "done"}
        /\ pc = "run" => (stack = <<"parse", "stmt">> /\ la = None)
        /\ Done => outcome = Success

C5_Witness ==
    /\ WhitespaceOnly(input)
    /\ outcome = Success
    /\ nmatched = 0
    /\ cur_pos = Len(input)

\* the characters some pattern of the lexicon matches
TokenChars == alnum \cup {" ", "\t", "\n", "=", "(", ")"}
HasUnrecognized(s) == \E i \in 1..Len(s) : s[i] \notin TokenChars
FirstUnrecognized(s) == Min({i \in 1..Len(s) : s[i] \notin TokenChars})

\* the 1-based line and column of the i-th character of s
LineCol(s, i) ==
    LET nls == {j \in 1..(i - 1) : s[j] = "\n"}
    IN  <<1 + Cardinality(nls), i - (IF nls = {} THEN 0 ELSE Max(nls))>>

\* the number of tokens of s that end before its i-th character
TokensBefore(s, i) == Len(Kinds(SubSeq(s, 1, i - 1), 0))

\* C6 (as stated): any input containing a character that matches no token
\* pattern ends in a scanner error, reported at the position of that
\* character.
C6_Original ==
    (Done /\ HasUnrecognized(input)) =>
        /\ outcome = ScannerError
        /\ errpos = LineCol(input, FirstUnrecognized(input))

\* C6 (amended): an input containing an unrecognized character is never
\* accepted.  It ends in a scanner error exactly when the parser matched
\* every token before the first such character, and the position reported
\* is then the line and column of that character; otherwise it ends in a
\* parser error raised on an earlier token.  A scanner error occurs only on
\* such input.
C6_Amended ==
    /\ (Done /\ HasUnrecognized(input)) =>
          LET i == FirstUnrecognized(input)
              k == TokensBefore(input, i)
          IN  /\ outcome \in {ScannerError, ParserError}
              /\ outcome = ScannerError <=> nmatched = k
              /\ outcome = ParserError => nmatched < k
              /\ outcome = ScannerError => errpos = LineCol(input, i)
    /\ outcome = ScannerError => HasUnrecognized(input)

C6_Witness ==
    /\ outcome = ScannerError
    /\ nmatched = 1
    /\ errpos = <<2, 1>>

\* C7 (as stated): the input "( true and false" raises a parser error once
\* the end of input is reached, after the tokens (, true, and, false have
\* been consumed.
C7_Original ==
    (Done /\ input = in_unmatched) =>
        /\ outcome = ParserError
        /\ nmatched = 4
        /\ la = None

\* C7 (amended): the input "( true and false" raises a parser error, and it
\* is raised by stmt on the first token "(", before any token is consumed;
\* the position reported is line 1, char 1.
C7_Amended ==
    (Done /\ input = in_unmatched) =>
        /\ outcome = ParserError
        /\ msg = <<"in stmt: string or print command expected">>
        /\ nmatched = 0
        /\ la = "("
        /\ errpos = <<1, 1>>

C7_Witness == Done /\ input = in_unmatched /\ outcome = ParserError

\* the token a maximal run of letters and digits is to give
Classify(v) ==
    IF v \in {w_and, w_or, w_not} THEN "LOG_OP_TOKEN"
    ELSE IF FoldSeq(v) \in {w_true, w_false, <<"t">>, <<"f">>, <<"1">>, <<"0">>}
         THEN "BOOLEAN_VAL_TOKEN"
    ELSE IF v = w_print THEN "PRINT_COMMAND"
    ELSE "string"

\* C8: longest match with priority tie-break.  Whenever the lookahead is a
\* token that begins with a letter or digit, its text is a whole maximal run
\* of letters and digits of the input (the run is one token), and its kind
\* is LOG_OP_TOKEN iff the run is and/or/not, BOOLEAN_VAL_TOKEN iff it is a
\* case variant of true/false/t/f/1/0, PRINT_COMMAND iff it is print, and
\* string otherwise; so "and1" is one string token.
C8_LongestMatch ==
    (exc # "PlexError" /\ la \notin {Unset, None} /\ val[1] \in alnum) =>
        LET a == cur_pos - Len(val)
        IN  /\ a >= 0
            /\ val = SubSeq(input, a + 1, cur_pos)
            /\ \A i \in 1..Len(val) : val[i] \in alnum
            /\ a = 0 \/ input[a] \notin alnum
            /\ cur_pos = Len(input) \/ input[cur_pos + 1] \notin alnum
            /\ la = Classify(val)

C8_Witness == la = "string" /\ val = w_and \o <<"1">> /\ exc = None

\* the spellings of a boolean value
BoolSpellings ==
    {w_true, <<"T","R","U","E">>, <<"T","r","u","e">>, <<"t">>, <<"T">>, <<"1">>,
     w_false, <<"F","A","L","S","E">>, <<"f">>, <<"F">>, <<"0">>}

\* the tokens of s that are a spelling of a boolean value: the pairs of the
\* first and last index of a maximal run of letters and digits that is one
BoolTokens(s) ==
    {ab \in {<<a, a + d>> : a \in 1..Len(s), d \in 0..4} :
        /\ ab[2] <= Len(s)
        /\ SubSeq(s, ab[1], ab[2]) \in BoolSpellings
        /\ ab[1] = 1 \/ s[ab[1] - 1] \notin alnum
        /\ ab[2] = Len(s) \/ s[ab[2] + 1] \notin alnum}

Replace(s, ab, w) == SubSeq(s, 1, ab[1] - 1) \o w \o SubSeq(s, ab[2] + 1, Len(s))

\* each spelling, standing alone, is scanned whole as a BOOLEAN_VAL_TOKEN
SpellingsScanned ==
    \A w \in BoolSpellings :
        scan_a_token(w, 0) = [len |-> Len(w), action |-> "BOOLEAN_VAL_TOKEN"]

\* C9: boolean literal equivalence.  Each of the spellings true, TRUE, True,
\* t, T, 1, false, FALSE, f, F, 0 is scanned as one BOOLEAN_VAL_TOKEN;
\* booleanVal is only entered with such a lookahead and neither its error
\* branch nor its match ever raises a ParseError; and replacing a token of
\* the input that is one of these spellings by any other of them leaves the
\* outcome of the run (success, parser error, scanner error) unchanged.
C9_BooleanEquivalence ==
    /\ SpellingsScanned
    /\ (pc = "run" /\ Top(stack) = "booleanVal") => la = "BOOLEAN_VAL_TOKEN"
    /\ exc = "ParseError" =>
          /\ msg[1] # "in booleanVal: Boolean value expected"
          /\ ~(msg[1] = "found {} instead of {}" /\ msg[3] = "BOOLEAN_VAL_TOKEN")
    /\ Done =>
          \A ab \in BoolTokens(input) : \A w \in BoolSpellings :
              RunOutcome(Replace(input, ab, w)) = outcome

C9_Witness ==
    /\ outcome = Success
    /\ BoolTokens(input) # {}
    /\ nmatched >= 3

\* C10: the end of input as lookahead in stmt is the sole accepting
\* condition.  A procedure starts returning only in stmt with the end of
\* input as lookahead, and that step consumes nothing; success is reported
\* only when the returns have unwound the whole stack; and at success every
\* token of the input has been consumed by a match and nothing was raised.
C10_SoleAccept ==
    /\ [](outcome = Success =>
            /\ la = None
            /\ exc = None
            /\ cur_pos = Len(input)
            /\ ~HasUnrecognized(input)
            /\ nmatched = Len(Kinds(input, 0)))
    /\ [][(pc # "return" /\ pc' = "return") =>
            /\ pc = "run" /\ Top(stack) = "stmt" /\ la = None
            /\ UNCHANGED <<la, val, nmatched, cur_pos, stack>>]_vars
    /\ [][(outcome # Success /\ outcome' = Success) =>
            (pc = "return" /\ stack = <<>>)]_vars

C10_Witness == outcome = Success /\ nmatched >= 3

\* C11: the input "print" alone (tokens PRINT_COMMAND, end of input) is
\* rejected with a ParseError, never accepted and never a scanner error; the
\* error is raised by the match of stmt, before any token is consumed.
C11_PrintAlone ==
    (Len(tokens) = 2 /\ tokens[1].la = "PRINT_COMMAND" /\ tokens[2].la = None) =>
        /\ exc # "PlexError"
        /\ outcome \in {Running, ParserError}
        /\ nmatched = 0
        /\ Done =>
              /\ outcome = ParserError
              /\ msg = <<"found {} instead of {}", "PRINT_COMMAND", "string">>

C11_Witness ==
    /\ input = w_print
    /\ outcome = ParserError
    /\ la = "PRINT_COMMAND"

\* C12: in stmt with lookahead string (identifier) or PRINT_COMMAND the
\* lookahead is consumed and the parser moves to expr without raising a
\* ParseError; any lookahead other than these and the end of input raises a
\* ParseError.  (A scanner error on reading the next token is left aside.)
C12_StmtTransition ==
    [][(pc = "run" /\ Top(stack) = "stmt") =>
          /\ la \in {"string", "PRINT_COMMAND"} =>
                /\ exc' # "ParseError"
                /\ nmatched' = nmatched + 1
                /\ exc' = None => (pc' = "run" /\ stack' = Append(stack, "expr"))
          /\ la \notin {"string", "PRINT_COMMAND", None} =>
                (exc' = "ParseError" /\ nmatched' = nmatched)]_vars

\* the steps of expr on the lookaheads it consumes itself or hands to
\* booleanVal and logOp, and the steps of these two
ExprConsumes ==
    /\ (pc = "run" /\ Top(stack) = "expr") =>
          /\ la = "string" =>
                /\ exc' # "ParseError"
                /\ nmatched' = nmatched + 1
                /\ exc' = None => (pc' = "run" /\ stack' = Append(stack, "stmt"))
          /\ la \in {"(", ")"} =>
                /\ exc' # "ParseError"
                /\ nmatched' = nmatched + 1
                /\ exc' = None => (pc' = "run" /\ stack' = Append(stack, "expr"))
          /\ la = "BOOLEAN_VAL_TOKEN" =>
                (exc' = None /\ nmatched' = nmatched /\ stack' = Append(stack, "booleanVal"))
          /\ la = "LOG_OP_TOKEN" =>
                (exc' = None /\ nmatched' = nmatched /\ stack' = Append(stack, "logOp"))
          /\ pc' # "return"
    /\ (pc = "run" /\ Top(stack) \in {"booleanVal", "logOp"}) =>
          /\ exc' # "ParseError"
          /\ nmatched' = nmatched + 1
          /\ exc' = None => (pc' = "run" /\ stack' = Append(stack, "expr"))
          /\ pc' # "return"

ExprRaises ==
    /\ exc' = "ParseError"
    /\ msg' = <<"in expr: Valid expression expected">>
    /\ nmatched' = nmatched
    /\ la' = la

C14_AssignOpCheck ==
    [][(pc = "run" /\ Top(stack) = "assignOp") =>
          /\ la = "ASSIGN_OP"
          /\ nmatched' = nmatched + 1
          /\ exc' # "PlexError" =>
                LET ok == \/ la' = "("
                          \/ la' = "BOOLEAN_VAL_TOKEN"
                          \/ (la' = "LOG_OP_TOKEN" /\ val' = w_not)
                IN  /\ ok => (exc' = None /\ pc' = "run" /\ stack' = Append(stack, "expr"))
                    /\ ~ok => /\ exc' = "ParseError"
                              /\ msg' = <<"in assignOp: Assignment operator expected">>
                              /\ stack' = stack
                    /\ nread' = nread + 1
                    /\ la' = tokens[nmatched' + 1].la
                    /\ val' = tokens[nmatched' + 1].val]_vars

C14_Witness ==
    /\ exc = "ParseError"
    /\ msg = <<"in assignOp: Assignment operator expected">>
    /\ la = "LOG_OP_TOKEN"
    /\ val = w_and

\* the number of calls of match that have returned: every match whose test
\* la == token passed, less the one in which the read of the next token
\* raised the scanner's error
Returned(e, r, m) == IF e = "PlexError" /\ r >= 1 THEN m - 1 ELSE m
MatchesReturned == Returned(exc, nread, nmatched)

\* the parser holds as lookahead the token at index k of the token stream
\* (the first token has index 0), and k + 1 tokens have been pulled
HoldsToken(k) ==
    /\ nread = k + 1
    /\ k + 1 <= Len(tokens)
    /\ la = tokens[k + 1].la
    /\ val = tokens[k + 1].val

\* C15 (as stated): at every point of a run (from the call of parse on) the
\* parser holds exactly one lookahead token, the token at index k of the
\* token stream, where k is the number of successful calls of match so far,
\* and the number of tokens pulled from the scanner is k + 1.
C15_Original == pc # "start" => HoldsToken(MatchesReturned)

\* C15 (amended): from the moment the initial lookahead has been read, the
\* parser holds exactly one lookahead, the token at index k of the token
\* stream, where k is the number of calls of match that have returned; k + 1
\* tokens have been pulled, the scanner stands at the end of the lookahead
\* (it is never read further ahead), and k and the number of tokens pulled
\* grow by at most one per step, so tokens are consumed in stream order, each
\* at most once.  A match whose read raises the scanner's error leaves the
\* lookahead as it was.  When the initial read itself raises, no token is
\* ever pulled and the parser never holds a lookahead.
C15_Amended ==
    /\ [](/\ nread >= 1 =>
                /\ HoldsToken(MatchesReturned)
                /\ exc # "PlexError" => cur_pos = tokens[nread].end
                /\ exc = "PlexError" => tokens[nread + 1].la = NoMatch
          /\ nread = 0 =>
                /\ la = Unset /\ nmatched = 0
                /\ pc # "start" => (exc = "PlexError" /\ tokens[1].la = NoMatch))
    /\ [][/\ nread' \in {nread, nread + 1}
          /\ Returned(exc', nread', nmatched') \in {MatchesReturned, MatchesReturned + 1}
          /\ nread' = nread => (la' = la /\ val' = val)]_vars

C15_Witness ==
    /\ nread = 4
    /\ nmatched = 3
    /\ exc = None
    /\ la = "BOOLEAN_VAL_TOKEN"

\* C16: abort on first error.  Once an exception is raised the only step
\* left is its handler: no token is pulled or matched, the lookahead and
\* the scanner stay as they are, and the run ends in the error's outcome.
\* Every finished run has exactly one of the three outcomes, set once, and
\* success is never reported after an exception was raised.
C16_AbortOnFirstError ==
    /\ [][exc # None =>
            /\ pc = "raise" /\ pc' = "done"
            /\ exc' = exc
            /\ nread' = nread /\ nmatched' = nmatched
            /\ la' = la /\ val' = val /\ cur_pos' = cur_pos
            /\ outcome' = IF exc = "PlexError" THEN ScannerError ELSE ParserError]_vars
    /\ [][outcome # Running => outcome' = outcome]_vars
    /\ [](/\ Done <=> outcome # Running
          /\ Done => /\ outcome \in {Success, ScannerError, ParserError}
                     /\ outcome = Success <=> exc = None
                     /\ outcome = ScannerError <=> exc = "PlexError"
                     /\ outcome = ParserError <=> exc = "ParseError")

C16_Witness ==
    /\ Done
    /\ outcome = ParserError
    /\ nmatched >= 2
    /\ nread = nmatched + 1

\* the frames of stmt and expr on the stack
StmtExprFrames == {i \in 1..Len(stack) : stack[i] \in {"stmt", "expr"}}

\* C17: termination.  Every run reaches a terminal outcome.  Every entry
\* into stmt or expr after the first is made by a step that consumes a token
\* (the hand-over from the check after "=" to expr included: that step has
\* consumed the "="), so the procedures entered are at most one stmt or expr
\* per token consumed plus the first, at most 2n + 2 frames in all for n
\* tokens consumed, and n is at most the number of tokens of the input.
C17_Termination ==
    /\ <>Done
    /\ [][(pc = "run" /\ pc' = "run" /\ Top(stack') \in {"stmt", "expr"}) =>
            (stack' = Append(stack, Top(stack')) /\ nmatched' = nmatched + 1)]_vars
    /\ [](/\ pc \in {"run", "raise"} =>
                /\ Cardinality(StmtExprFrames) <= nmatched + 1
                /\ Len(stack) <= 2 * nmatched + 2
          /\ Len(stack) <= 2 * nmatched + 2
          /\ nmatched <= Len(tokens) - 1)

C17_Witness ==
    /\ Done
    /\ nmatched = Len(tokens) - 1
    /\ nmatched >= 4

LookaheadStart == tokens[nread].end - Len(tokens[nread].val)

\* C19: a parser error leaves the lookahead and the scanner where they were.
\* A step that raises ParseError changes neither (in assignOp, after the
\* match of "=" that the same step makes), the handler changes neither, and
\* so the lookahead of a parser error is the last token read and the position
\* reported is the line and column at which that token starts.
C19_SyntaxErrorPosition ==
    /\ [](exc = "ParseError" =>
            /\ nread >= 1
            /\ la = tokens[nread].la /\ val = tokens[nread].val
            /\ cur_pos = tokens[nread].end
            /\ <<position(Config)[1], position(Config)[2] + 1>>
                   = LineCol(input, LookaheadStart + 1)
            /\ msg[1] = "found {} instead of {}" => msg[2] = la)
    /\ [](outcome = ParserError => errpos = LineCol(input, LookaheadStart + 1))
    /\ [][(exc = None /\ exc' = "ParseError") =>
            \/ /\ la' = la /\ val' = val /\ nread' = nread /\ nmatched' = nmatched
               /\ cur_pos' = cur_pos /\ position(Config)' = position(Config)
            \/ /\ Top(stack) = "assignOp" /\ la = "ASSIGN_OP"
               /\ nmatched' = nmatched + 1 /\ nread' = nread + 1]_vars
    /\ [][exc = "ParseError" =>
            /\ la' = la /\ val' = val /\ nread' = nread
            /\ cur_pos' = cur_pos /\ position(Config)' = position(Config)]_vars

C19_Witness ==
    /\ outcome = ParserError
    /\ errpos = <<2, 2>>
    /\ la = "string"
    /\ nmatched = 2

\* the text has unrecognized input after its tokens
EndsUnrecognized == tokens[Len(tokens)].la = NoMatch

\* C20: when unrecognized input follows the tokens t1..tk of the text, the
\* run ends in a scanner error exactly when the parser matched all k of them;
\* the error is raised by the initial read when k = 0 and otherwise by the
\* step that matches tk, with the lookahead still tk.  A parser error is
\* raised on one of t1..tk, and then no scan has started at or beyond the
\* unrecognized input.
C20_LexicalErrorIff ==
    /\ []((Done /\ EndsUnrecognized) =>
            /\ outcome \in {ScannerError, ParserError}
            /\ outcome = ScannerError <=> nmatched = Len(tokens) - 1
            /\ outcome = ParserError =>
                  /\ nmatched < Len(tokens) - 1
                  /\ nread = nmatched + 1
                  /\ la = tokens[nmatched + 1].la
                  /\ cur_pos < FirstUnrecognized(input)
                  /\ cur_pos <= tokens[Len(tokens) - 1].end)
    /\ [](exc = "PlexError" => EndsUnrecognized /\ nmatched = Len(tokens) - 1)
    /\ [][(exc = None /\ exc' = "PlexError") =>
            /\ msg' = <<"UnrecognizedInput">>
            /\ la' = la /\ val' = val /\ nread' = nread
            /\ \/ pc = "start" /\ Len(tokens) = 1 /\ nmatched' = 0
               \/ /\ pc = "run"
                  /\ nmatched' = nmatched + 1
                  /\ la = tokens[nmatched'].la
                  /\ nmatched' = Len(tokens) - 1]_vars

C20_Witness ==
    /\ Done
    /\ EndsUnrecognized
    /\ outcome = ScannerError
    /\ nmatched = 2

====
